---------------------------- MODULE Spec2Model ----------------------------
(***************************************************************************)
(* A model of tube.manager.Manager (src/tube/manager.py): topic routing    *)
(* over ZMQ sockets, the request/response wait loop with its response      *)
(* cache, and the asyncio dispatch loop.                                   *)
(*                                                                         *)
(* Python str and bytes values are sequences of one-character strings, so  *)
(* that f'{topic}_{message_id}' is a real concatenation.  A Python payload *)
(* value is a record [t, v]: its type tag and its text.  asyncio is        *)
(* cooperative: every action below is the code between two awaits.         *)
(***************************************************************************)
EXTENDS Naturals, Sequences, FiniteSets

(***************************************************************************)
(* Bounds of the model.                                                    *)
(***************************************************************************)
MaxReq == 2
MaxTimeout == 2
MaxArrivals == 2
MaxCalls == 2
MaxRegs == 2

(***************************************************************************)
(* Program constants.                                                      *)
(***************************************************************************)
CacheMaxSize == 128
CacheTTL == 60

None == "None"
NoId == << >>

(***************************************************************************)
(* Python values.                                                          *)
(***************************************************************************)
PyStr(s) == [t |-> "str", v |-> s]
PyNone == [t |-> "none", v |-> << >>]
PyObj == [t |-> "obj", v |-> << >>]

Digit(n) == <<"0", "1", "2", "3", "4", "5", "6", "7", "8", "9">>[n + 1]

RECURSIVE DecStr(_)
DecStr(n) == IF n < 10 THEN <<Digit(n)>>
             ELSE DecStr(n \div 10) \o <<Digit(n % 10)>>

(***************************************************************************)
(* The sockets of the model and their ZMQ types.                           *)
(***************************************************************************)
Sockets == {"REQ1", "REP1", "PUB1", "SUB1", "ROUTER1"}

ZMQ_SOCKET_TYPE_MAPPING ==
    [s \in Sockets |->
        CASE s = "REQ1" -> "REQ"
          [] s = "REP1" -> "REP"
          [] s = "PUB1" -> "PUB"
          [] s = "SUB1" -> "SUB"
          [] s = "ROUTER1" -> "ROUTER"]

(***************************************************************************)
(* Topics and topic patterns, as text.                                     *)
(***************************************************************************)
T_q == <<"q", "/", "a">>
T_p == <<"p", "/", "a">>
T_e == <<"e", "/", "a">>
T_n == <<"n">>
T_z == <<"z">>
T_u == <<"q", "/", "a", "_", "b">>

P_q == <<"q", "/", "#">>
P_p == <<"p", "/", "#">>
P_e == <<"e", "/", "+">>
P_n == <<"n">>
P_r == <<"r", "/", "#">>
T_r == <<"r", "/", "a">>

Topics == {T_q, T_p, T_e, T_n, T_r, T_z, T_u}
Patterns == {P_q, P_p, P_e, P_n, P_r}

(***************************************************************************)
(* MQTTMatcher: a trie over the '/'-separated segments of the patterns.    *)
(* A tree is a function from pattern to the stored value, or None.         *)
(***************************************************************************)
RECURSIVE Split(_)
Split(s) ==
    IF \A i \in 1..Len(s) : s[i] # "/" THEN <<s>>
    ELSE LET i == CHOOSE k \in 1..Len(s) :
                      s[k] = "/" /\ \A j \in 1..(k - 1) : s[j] # "/"
         IN  <<SubSeq(s, 1, i - 1)>> \o Split(SubSeq(s, i + 1, Len(s)))

PatternSegs == [p \in Patterns |-> Split(p)]
TopicSegs == [t \in Topics |-> Split(t)]

Content(tree, segs) ==
    LET at == {p \in Patterns : PatternSegs[p] = segs /\ tree[p] # None}
    IN  IF at = {} THEN << >> ELSE <<tree[CHOOSE p \in at : TRUE]>>

RECURSIVE MatchRec(_, _, _, _)
MatchRec(tree, lst, pre, i) ==
    (IF i = Len(lst) THEN Content(tree, pre)
     ELSE MatchRec(tree, lst, Append(pre, lst[i + 1]), i + 1)
          \o MatchRec(tree, lst, Append(pre, <<"+">>), i + 1))
    \o Content(tree, Append(pre, <<"#">>))

iter_match(tree, topic) ==
    MatchRec(tree, IF topic \in Topics THEN TopicSegs[topic] ELSE Split(topic),
             << >>, 0)

VARIABLES sockets_tree, callbacks, response_cache, inbox, sent, req,
          loop_st, usec, last_call, arrivals, closes

vars == <<sockets_tree, callbacks, response_cache, inbox, sent, req,
          loop_st, usec, last_call, arrivals, closes>>

get_socket_by_topic(topic) ==
    LET m == iter_match(sockets_tree, topic)
    IN  IF m = << >> THEN None ELSE Head(m)

get_callback_by_topic(topic) ==
    LET m == iter_match(callbacks, topic)
    IN  IF m = << >> THEN None ELSE Head(m)

(***************************************************************************)
(* TTLCache(maxsize=128, ttl=60): a sequence of entries in insertion       *)
(* order, each with its age in seconds.                                    *)
(***************************************************************************)
cache_live(c) == SelectSeq(c, LAMBDA e : e.age < CacheTTL)

cache_contains(c, k) ==
    \E i \in 1..Len(c) : c[i].key = k /\ c[i].age < CacheTTL

cache_get(c, k) ==
    c[CHOOSE i \in 1..Len(c) : c[i].key = k /\ c[i].age < CacheTTL].value

cache_pop(c, k) == SelectSeq(c, LAMBDA e : e.key # k)

cache_set_unbounded(c, k, v) ==
    Append(SelectSeq(cache_live(c), LAMBDA e : e.key # k),
           [key |-> k, value |-> v, age |-> 0])

cache_set(c, k, v) ==
    LET live == cache_live(c)
        has == \E i \in 1..Len(live) : live[i].key = k
        kept == IF has THEN SelectSeq(live, LAMBDA e : e.key # k)
                ELSE IF Len(live) >= CacheMaxSize THEN Tail(live)
                ELSE live
    IN  Append(kept, [key |-> k, value |-> v, age |-> 0])

cache_age(c, dt) ==
    IF c = << >> THEN << >> ELSE
    [i \in 1..Len(c) |->
        [c[i] EXCEPT !.age = IF @ + dt > CacheTTL THEN CacheTTL ELSE @ + dt]]

cache_key(topic, message_id) == topic \o <<"_">> \o message_id

(***************************************************************************)
(* Manager.__format_payload: the bytes of a payload, or TypeError.         *)
(***************************************************************************)
format_payload(payload) ==
    CASE payload.t = "str" -> [exc |-> "", b |-> payload.v]
      [] payload.t = "bytes" -> [exc |-> "", b |-> payload.v]
      [] payload.t = "int" -> [exc |-> "", b |-> payload.v]
      [] payload.t = "none" -> [exc |-> "", b |-> << >>]
      [] OTHER -> [exc |-> "TypeError", b |-> << >>]

decode(b) == PyStr(b)

(***************************************************************************)
(* Manager.register_socket: every topic of the list maps to the socket.    *)
(***************************************************************************)
RECURSIVE register_socket(_, _, _)
register_socket(tree, socket, topics) ==
    IF topics = << >> THEN tree
    ELSE register_socket([tree EXCEPT ![Head(topics)] = socket],
                         socket, Tail(topics))

(***************************************************************************)
(* Manager.send without its transmission: the exception it raises ("" for  *)
(* none), the socket it resolved and the frames it hands to the socket.    *)
(***************************************************************************)
send_wrong_exception(topic, payload, enabled_socket_types, socket, message_id) ==
    LET s == IF socket = None THEN get_socket_by_topic(topic) ELSE socket
        f == format_payload(payload)
        no == [exc |-> "", socket |-> s, message |-> << >>]
    IN  IF s = None THEN [no EXCEPT !.exc = "TubeException"]
        ELSE IF enabled_socket_types # {}
                /\ ZMQ_SOCKET_TYPE_MAPPING[s] \notin enabled_socket_types
             THEN [no EXCEPT !.exc = "TubeException"]
        ELSE IF f.exc # "" THEN [no EXCEPT !.exc = f.exc]
        ELSE IF message_id # NoId
             THEN [no EXCEPT !.message = <<topic, message_id, f.b>>]
        ELSE [no EXCEPT !.message = <<topic, f.b>>]

send_any_type(topic, payload, enabled_socket_types, socket, message_id) ==
    LET s == IF socket = None THEN get_socket_by_topic(topic) ELSE socket
        f == format_payload(payload)
        no == [exc |-> "", socket |-> s, message |-> << >>]
    IN  IF s = None THEN [no EXCEPT !.exc = "TubeTopicNotConfigured"]
        ELSE IF f.exc # "" THEN [no EXCEPT !.exc = f.exc]
        ELSE IF message_id # NoId
             THEN [no EXCEPT !.message = <<topic, message_id, f.b>>]
        ELSE [no EXCEPT !.message = <<topic, f.b>>]

send(topic, payload, enabled_socket_types, socket, message_id) ==
    LET s == IF socket = None THEN get_socket_by_topic(topic) ELSE socket
        f == format_payload(payload)
        no == [exc |-> "", socket |-> s, message |-> << >>]
    IN  IF s = None THEN [no EXCEPT !.exc = "TubeTopicNotConfigured"]
        ELSE IF enabled_socket_types # {}
                /\ ZMQ_SOCKET_TYPE_MAPPING[s] \notin enabled_socket_types
             THEN [no EXCEPT !.exc = "TubeException"]
        ELSE IF f.exc # "" THEN [no EXCEPT !.exc = f.exc]
        ELSE IF message_id # NoId
             THEN [no EXCEPT !.message = <<topic, message_id, f.b>>]
        ELSE [no EXCEPT !.message = <<topic, f.b>>]

send_multipart(s, message) == [sent EXCEPT ![s] = Append(@, message)]

(***************************************************************************)
(* The state after Manager(): empty trees, an empty cache, no coroutine.   *)
(***************************************************************************)
Reqs == 1..MaxReq

IdleReq == [pc |-> "idle", topic |-> << >>, payload |-> PyNone,
            timeout |-> 0, socket |-> None, message_id |-> NoId, ix |-> 0,
            expired |-> FALSE, elapsed |-> 0, seen |-> 0,
            result |-> PyNone, via |-> "", got |-> PyNone, err |-> ""]

NoMsg == [socket |-> None, topic |-> << >>, message_id |-> NoId,
          payload |-> PyNone]

IdleLoop == [pc |-> "notstarted", polled |-> {}, events |-> << >>,
             cur |-> NoMsg, err |-> "", calls |-> 0, bad |-> 0,
             raised |-> 0, replies |-> 0]

Init ==
    /\ sockets_tree = [p \in Patterns |-> None]
    /\ callbacks = [p \in Patterns |-> None]
    /\ response_cache = << >>
    /\ inbox = [s \in Sockets |-> << >>]
    /\ sent = [s \in Sockets |-> << >>]
    /\ req = [r \in Reqs |-> IdleReq]
    /\ loop_st = IdleLoop
    /\ usec = 1
    /\ last_call = [n |-> 0, op |-> "", topic |-> << >>, exc |-> ""]
    /\ arrivals = 0
    /\ closes = [s \in Sockets |-> 0]

RegisteredSockets == {sockets_tree[p] : p \in Patterns} \ {None}

\* MQTTMatcher.values(): the value stored at every pattern, given as the
\* number of times each socket occurs among them.
values(tree) ==
    [s \in Sockets |-> Cardinality({p \in Patterns : tree[p] = s})]

\* close() has been called: the application is tearing the manager down and
\* calls nothing but close() from then on.
TornDown == last_call.op = "close"

Fresh ==
    /\ \A r \in Reqs : req[r].pc = "idle"
    /\ loop_st.pc = "notstarted"
    /\ last_call.n = 0
    /\ arrivals = 0
    /\ usec = 1

Registrable ==
    { <<"REQ1", <<P_q>>>>, <<"REP1", <<P_p>>>>, <<"PUB1", <<P_n>>>>,
      <<"SUB1", <<P_e>>>>, <<"ROUTER1", <<P_r, P_n>>>> }

RegisterSocket(socket, topics) ==
    /\ Fresh
    /\ Cardinality(RegisteredSockets) < MaxRegs
    /\ socket \notin RegisteredSockets
    /\ sockets_tree' = register_socket(sockets_tree, socket, topics)
    /\ UNCHANGED <<callbacks, response_cache, inbox, sent, req, loop_st,
                   usec, last_call, arrivals, closes>>

RegisterHandler(topic) ==
    /\ Fresh
    /\ topic \in {P_p, P_r}
    /\ sockets_tree[topic] # None
    /\ callbacks[topic] = None
    /\ callbacks' = [callbacks EXCEPT ![topic] = "fce"]
    /\ UNCHANGED <<sockets_tree, response_cache, inbox, sent, req, loop_st,
                   usec, last_call, arrivals, closes>>

Subscribe(topic) ==
    /\ Fresh
    /\ topic = P_e
    /\ sockets_tree[topic] # None
    /\ callbacks[topic] = None
    /\ callbacks' = [callbacks EXCEPT ![topic] = "fce"]
    /\ UNCHANGED <<sockets_tree, response_cache, inbox, sent, req, loop_st,
                   usec, last_call, arrivals, closes>>

(***************************************************************************)
(* Manager.send and Manager.publish called by the application.             *)
(***************************************************************************)
Payloads == {PyStr(<<"a">>), PyObj}
CallTopics == {T_q, T_n}
ReqPayloads == {PyStr(<<"a">>)}

Call(op, topic, s) ==
    /\ last_call' = [n |-> last_call.n + 1, op |-> op, topic |-> topic,
                     exc |-> s.exc]
    /\ sent' = IF s.exc = "" THEN send_multipart(s.socket, s.message)
               ELSE sent

Send(topic, payload) ==
    /\ last_call.n < MaxCalls
    /\ ~TornDown
    /\ Call("send", topic, send(topic, payload, {}, None, NoId))
    /\ UNCHANGED <<sockets_tree, callbacks, response_cache, inbox, req,
                   loop_st, usec, arrivals, closes>>

Publish(topic, payload) ==
    /\ last_call.n < MaxCalls
    /\ ~TornDown
    /\ Call("publish", topic, send(topic, payload, {"PUB"}, None, NoId))
    /\ UNCHANGED <<sockets_tree, callbacks, response_cache, inbox, req,
                   loop_st, usec, arrivals, closes>>

(***************************************************************************)
(* Manager.request.  RequestCall is lines 174-186 up to the first await;   *)
(* the coroutine then waits in socket.poll(1000) (pc "poll") or in         *)
(* socket.recv_multipart() (pc "recv").                                    *)
(***************************************************************************)
Timeouts == 1..MaxTimeout

range_one_more(timeout) == timeout + 1

range_len(timeout) == timeout

ReturnValue(payload, in_payload) == payload

CachedValue(payload, in_payload) == payload

\* The top of the for loop body with index ix: the exhausted range raises,
\* a cache hit returns the popped entry, otherwise the coroutine polls.
for_ix(rec, ix, cache) ==
    LET key == cache_key(rec.topic, rec.message_id)
    IN  IF ix >= range_len(rec.timeout)
        THEN [r |-> [rec EXCEPT !.pc = "raised", !.ix = ix,
                                !.err = "TubeMessageTimeout"],
              c |-> cache]
        ELSE IF cache_contains(cache, key)
        THEN [r |-> [rec EXCEPT !.pc = "returned", !.ix = ix,
                                !.via = "cache",
                                !.result = cache_get(cache, key)],
              c |-> cache_pop(cache, key)]
        ELSE [r |-> [rec EXCEPT !.pc = "poll", !.ix = ix,
                                !.expired = FALSE],
              c |-> cache]

RequestCall(r, topic, payload, timeout) ==
    /\ req[r].pc = "idle"
    /\ ~TornDown
    /\ \A q \in Reqs : q < r => req[q].pc # "idle"
    /\ \E now \in {usec, usec + 1} :
         LET socket == get_socket_by_topic(topic)
             message_id == DecStr(now)
             s == send(topic, payload, {"REQ"}, socket, message_id)
             rec == [IdleReq EXCEPT !.topic = topic, !.payload = payload,
                                    !.timeout = timeout, !.socket = socket,
                                    !.message_id = message_id]
             nxt == for_ix(rec, 0, response_cache)
         IN  /\ last_call.n < MaxCalls
             /\ usec' = now
             /\ Call("request", topic, s)
             /\ IF s.exc # ""
                THEN \* send raised: the coroutine ends before any await
                     UNCHANGED <<req, response_cache>>
                ELSE /\ req' = [req EXCEPT ![r] = nxt.r]
                     /\ response_cache' = nxt.c
    /\ UNCHANGED <<sockets_tree, callbacks, inbox, loop_st, arrivals, closes>>

\* socket.poll(1000) returns non-zero: a message is waiting.
PollReady(r) ==
    /\ req[r].pc = "poll"
    /\ inbox[req[r].socket] # << >>
    /\ req' = [req EXCEPT ![r].pc = "recv"]
    /\ UNCHANGED <<sockets_tree, callbacks, response_cache, inbox, sent,
                   loop_st, usec, last_call, arrivals, closes>>

\* socket.poll(1000) returns 0 after its second: the next index of the for.
PollTimeout(r) ==
    /\ req[r].pc = "poll"
    /\ req[r].expired
    /\ inbox[req[r].socket] = << >>
    /\ LET nxt == for_ix(req[r], req[r].ix + 1, response_cache)
       IN  /\ req' = [req EXCEPT ![r] = nxt.r]
           /\ response_cache' = nxt.c
    /\ UNCHANGED <<sockets_tree, callbacks, inbox, sent, loop_st, usec,
                   last_call, arrivals, closes>>

\* __process_event(socket, 3) in the wait loop, and lines 189-197.
Recv(r) ==
    /\ req[r].pc = "recv"
    /\ inbox[req[r].socket] # << >>
    /\ LET raw_request == Head(inbox[req[r].socket])
           rec == [req[r] EXCEPT !.seen = @ + 1]
       IN  /\ inbox' = [inbox EXCEPT ![req[r].socket] = Tail(@)]
           /\ IF Len(raw_request) # 3
              THEN /\ req' = [req EXCEPT ![r] =
                        [rec EXCEPT !.pc = "raised",
                                    !.err = "TubeMessageError"]]
                   /\ UNCHANGED response_cache
              ELSE LET in_topic == raw_request[1]
                       in_message_id == raw_request[2]
                       in_payload == decode(raw_request[3])
                   IN  IF in_topic # rec.topic
                          \/ in_message_id # rec.message_id
                       THEN /\ response_cache' =
                                 cache_set(response_cache,
                                           cache_key(in_topic, in_message_id),
                                           CachedValue(rec.payload, in_payload))
                            /\ req' = [req EXCEPT ![r] =
                                 [rec EXCEPT !.pc = "poll",
                                             !.expired = FALSE]]
                       ELSE /\ req' = [req EXCEPT ![r] =
                                 [rec EXCEPT !.pc = "returned",
                                      !.via = "recv", !.got = in_payload,
                                      !.result =
                                        ReturnValue(rec.payload, in_payload)]]
                            /\ UNCHANGED response_cache
    /\ UNCHANGED <<sockets_tree, callbacks, sent, loop_st, usec, last_call,
                   arrivals, closes>>

(***************************************************************************)
(* Time.  Tick is one second passing while some request polls; TimePasses  *)
(* is the application idling for the cache's TTL.  A poll or a receive     *)
(* with a message waiting completes at once, and so does a poll whose      *)
(* second is over: no second passes before them.                           *)
(***************************************************************************)
InFlight(r) == req[r].pc \in {"poll", "recv"}

Tick ==
    /\ \E r \in Reqs : req[r].pc = "poll"
    /\ \A r \in Reqs : ~(req[r].pc = "poll" /\ req[r].expired)
    /\ \A r \in Reqs : InFlight(r) => inbox[req[r].socket] = << >>
    /\ req' = [r \in Reqs |->
                 IF InFlight(r)
                 THEN [req[r] EXCEPT !.elapsed = @ + 1,
                                     !.expired = (req[r].pc = "poll")]
                 ELSE req[r]]
    /\ response_cache' = cache_age(response_cache, 1)
    /\ UNCHANGED <<sockets_tree, callbacks, inbox, sent, loop_st, usec,
                   last_call, arrivals, closes>>

TimePasses ==
    /\ \A r \in Reqs : ~InFlight(r)
    /\ cache_live(response_cache) # << >>
    /\ response_cache' = cache_age(response_cache, CacheTTL)
    /\ UNCHANGED <<sockets_tree, callbacks, inbox, sent, req, loop_st, usec,
                   last_call, arrivals, closes>>

(***************************************************************************)
(* The peers: a message arrives on a registered socket.                    *)
(***************************************************************************)
Resp(message_id) == <<"x">> \o message_id

Deliverable(s) ==
    CASE ZMQ_SOCKET_TYPE_MAPPING[s] = "REQ" ->
           { <<sent[s][i][1], sent[s][i][2], Resp(sent[s][i][2])>> :
               i \in {j \in 1..Len(sent[s]) : Len(sent[s][j]) = 3} }
           \cup { <<T_q, <<"x">>>> }
           \cup { <<T_q, <<"b", "_">> \o sent[s][i][2],
                     Resp(sent[s][i][2])>> :
                     i \in {j \in 1..Len(sent[s]) :
                              Len(sent[s][j]) = 3 /\ sent[s][j][1] = T_u} }
      [] ZMQ_SOCKET_TYPE_MAPPING[s] = "REP" ->
           { <<T_p, <<"7">>, <<"r">>>>, <<T_p, << >>, <<"r">>>>,
             <<T_z, <<"7">>, <<"r">>>>, <<T_p, <<"r">>>> }
      [] ZMQ_SOCKET_TYPE_MAPPING[s] = "SUB" ->
           { <<T_e, <<"v">>>>, <<T_e, <<"7">>, <<"v">>>> }
      [] ZMQ_SOCKET_TYPE_MAPPING[s] = "ROUTER" ->
           { <<T_r, <<"7">>, <<"r">>>> }
      [] OTHER -> {}

Deliver(s, message) ==
    /\ arrivals < MaxArrivals
    /\ s \in RegisteredSockets
    /\ closes[s] = 0
    /\ ZMQ_SOCKET_TYPE_MAPPING[s] # "REQ" => loop_st.pc # "notstarted"
    /\ message \in Deliverable(s)
    /\ inbox' = [inbox EXCEPT ![s] = Append(@, message)]
    /\ arrivals' = arrivals + 1
    /\ UNCHANGED <<sockets_tree, callbacks, response_cache, sent, req,
                   loop_st, usec, last_call, closes>>

(***************************************************************************)
(* Manager.loop.  LoopCall is lines 202-211; LoopPoll is the await of      *)
(* poller.poll(); LoopEvent is one turn of the for loop up to the await of *)
(* the callback; HandlerReturn and HandlerRaise end that await.            *)
(***************************************************************************)
HandlerResults == {PyStr(<<"b">>), PyNone, PyObj}

PolledTypes_and_router == {"SUB", "REP", "ROUTER"}

PolledTypes == {"SUB", "REP"}

Crash(exc) == [loop_st EXCEPT !.pc = "crashed", !.err = exc]

LoopCall ==
    /\ loop_st.pc = "notstarted"
    /\ ~TornDown
    /\ last_call.n < MaxCalls
    /\ last_call' = [n |-> last_call.n + 1, op |-> "loop", topic |-> << >>,
                     exc |-> ""]
    /\ LET polled == {s \in RegisteredSockets :
                        ZMQ_SOCKET_TYPE_MAPPING[s] \in PolledTypes}
       IN  loop_st' = [loop_st EXCEPT
                         !.polled = polled,
                         !.pc = IF polled = {} THEN "returned"
                                ELSE "polling"]
    /\ UNCHANGED <<sockets_tree, callbacks, response_cache, inbox, sent, req,
                   usec, arrivals, closes>>

LoopPoll ==
    /\ loop_st.pc = "polling"
    /\ LET ready == {s \in loop_st.polled : inbox[s] # << >>}
       IN  /\ ready # {}
           /\ \E events \in [1..Cardinality(ready) -> ready] :
                /\ \A i, j \in DOMAIN events :
                     events[i] = events[j] => i = j
                /\ loop_st' = [loop_st EXCEPT !.pc = "events",
                                              !.events = events]
    /\ UNCHANGED <<sockets_tree, callbacks, response_cache, inbox, sent, req,
                   usec, last_call, arrivals, closes>>

\* A dispatch that does not wait for the handler it started.
LoopEvent_concurrent ==
    /\ loop_st.pc \in {"events", "handler"}
    /\ loop_st.events # << >>
    /\ inbox[Head(loop_st.events)] # << >>
    /\ LET socket == Head(loop_st.events)
       IN  IF ZMQ_SOCKET_TYPE_MAPPING[socket] = "SUB"
           THEN \* line 217 unpacks the coroutine object itself
                /\ loop_st' = Crash("TypeError")
                /\ UNCHANGED inbox
           ELSE LET raw_request == Head(inbox[socket])
                IN  /\ inbox' = [inbox EXCEPT ![socket] = Tail(@)]
                    /\ IF Len(raw_request) # 3
                       THEN loop_st' = [Crash("TubeMessageError")
                                          EXCEPT !.bad = @ + 1]
                       ELSE IF get_callback_by_topic(raw_request[1]) = None
                       THEN loop_st' = Crash("TypeError")
                       ELSE loop_st' =
                              [loop_st EXCEPT
                                 !.pc = "handler",
                                 !.calls = @ + 1,
                                 !.cur = [socket |-> socket,
                                          topic |-> raw_request[1],
                                          message_id |-> raw_request[2],
                                          payload |-> decode(raw_request[3])]]
    /\ UNCHANGED <<sockets_tree, callbacks, response_cache, sent, req, usec,
                   last_call, arrivals, closes>>

LoopEvent ==
    /\ loop_st.pc = "events"
    /\ LET socket == Head(loop_st.events)
       IN  IF ZMQ_SOCKET_TYPE_MAPPING[socket] = "SUB"
           THEN \* line 217 unpacks the coroutine object itself
                /\ loop_st' = Crash("TypeError")
                /\ UNCHANGED inbox
           ELSE LET raw_request == Head(inbox[socket])
                IN  /\ inbox' = [inbox EXCEPT ![socket] = Tail(@)]
                    /\ IF Len(raw_request) # 3
                       THEN loop_st' = [Crash("TubeMessageError")
                                          EXCEPT !.bad = @ + 1]
                       ELSE IF get_callback_by_topic(raw_request[1]) = None
                       THEN loop_st' = Crash("TypeError")
                       ELSE loop_st' =
                              [loop_st EXCEPT
                                 !.pc = "handler",
                                 !.calls = @ + 1,
                                 !.cur = [socket |-> socket,
                                          topic |-> raw_request[1],
                                          message_id |-> raw_request[2],
                                          payload |-> decode(raw_request[3])]]
    /\ UNCHANGED <<sockets_tree, callbacks, response_cache, sent, req, usec,
                   last_call, arrivals, closes>>

HandlerReturn(res) ==
    /\ loop_st.pc = "handler"
    /\ LET cur == loop_st.cur
           s == send(cur.topic, res, {}, cur.socket, cur.message_id)
           rest == Tail(loop_st.events)
       IN  IF s.exc # ""
           THEN /\ loop_st' = Crash(s.exc)
                /\ UNCHANGED sent
           ELSE /\ sent' = send_multipart(s.socket, s.message)
                /\ loop_st' = [loop_st EXCEPT
                                 !.pc = IF rest = << >> THEN "polling"
                                        ELSE "events",
                                 !.events = rest,
                                 !.replies = @ + 1]
    /\ UNCHANGED <<sockets_tree, callbacks, response_cache, inbox, req, usec,
                   last_call, arrivals, closes>>

HandlerRaise ==
    /\ loop_st.pc = "handler"
    /\ loop_st' = [Crash("HandlerError") EXCEPT !.raised = @ + 1]
    /\ UNCHANGED <<sockets_tree, callbacks, response_cache, inbox, sent, req,
                   usec, last_call, arrivals, closes>>

(***************************************************************************)
(* Manager.close, called when no request waits and the dispatch loop does  *)
(* not run: socket.close() on every value of the sockets tree.             *)
(***************************************************************************)
Close ==
    /\ last_call.n < MaxCalls
    /\ \A r \in Reqs : ~InFlight(r)
    /\ loop_st.pc \in {"notstarted", "returned", "crashed"}
    /\ closes' = [s \in Sockets |-> closes[s] + values(sockets_tree)[s]]
    /\ last_call' = [n |-> last_call.n + 1, op |-> "close", topic |-> << >>,
                     exc |-> ""]
    /\ UNCHANGED <<sockets_tree, callbacks, response_cache, inbox, sent, req,
                   loop_st, usec, arrivals>>

Next ==
    \/ \E x \in Registrable : RegisterSocket(x[1], x[2])
    \/ \E p \in Patterns : RegisterHandler(p)
    \/ \E p \in Patterns : Subscribe(p)
    \/ \E t \in CallTopics, p \in Payloads : Send(t, p)
    \/ \E t \in CallTopics, p \in Payloads : Publish(t, p)
    \/ \E r \in Reqs, t \in CallTopics, p \in ReqPayloads, n \in Timeouts :
         RequestCall(r, t, p, n)
    \/ \E r \in Reqs : PollReady(r)
    \/ \E r \in Reqs : PollTimeout(r)
    \/ \E r \in Reqs : Recv(r)
    \/ Tick
    \/ TimePasses
    \/ \E s \in Sockets : \E m \in Deliverable(s) : Deliver(s, m)
    \/ LoopCall
    \/ LoopPoll
    \/ LoopEvent
    \/ \E res \in HandlerResults : HandlerReturn(res)
    \/ HandlerRaise
    \/ Close

Spec == Init /\ [][Next]_vars

(***************************************************************************)
(* The dispatch loop with its peers alone, every enabled step eventually   *)
(* taken: the asyncio event loop runs every ready task.                    *)
(***************************************************************************)
NextLoop ==
    \/ \E x \in Registrable : RegisterSocket(x[1], x[2])
    \/ \E p \in Patterns : RegisterHandler(p)
    \/ \E p \in Patterns : Subscribe(p)
    \/ \E s \in Sockets : \E m \in Deliverable(s) : Deliver(s, m)
    \/ LoopCall
    \/ LoopPoll
    \/ LoopEvent
    \/ \E res \in HandlerResults : HandlerReturn(res)
    \/ HandlerRaise

LoopSpec == Init /\ [][NextLoop]_vars /\ WF_vars(NextLoop)

(***************************************************************************)
(* The wait loop of one request on a manager whose response cache is full  *)
(* or one entry short of full: the responses with ids 3, 4, ... were       *)
(* received late and cached, the oldest of them up to a second before      *)
(* their expiry; the responses to ids 1 and 2 are still on their way.      *)
(***************************************************************************)
PrefilledCache(n, old) ==
    [i \in 1..n |->
        [key |-> cache_key(T_q, DecStr(i + 2)), value |-> PyStr(<<"a">>),
         age |-> IF i <= old THEN CacheTTL - 1 ELSE 0]]

CacheInit ==
    \E n \in {CacheMaxSize - 1, CacheMaxSize}, old \in 0..2 :
        /\ sockets_tree = register_socket([p \in Patterns |-> None],
                                          "REQ1", <<P_q>>)
        /\ callbacks = [p \in Patterns |-> None]
        /\ response_cache = PrefilledCache(n, old)
        /\ inbox = [s \in Sockets |-> << >>]
        /\ sent = [s \in Sockets |->
                     IF s = "REQ1"
                     THEN [i \in 1..(n + 3) |-> <<T_q, DecStr(i), <<"a">>>>]
                     ELSE << >>]
        /\ req = [r \in Reqs |->
                    IF r = 1
                    THEN [IdleReq EXCEPT !.pc = "poll", !.topic = T_q,
                                         !.payload = PyStr(<<"a">>),
                                         !.timeout = MaxTimeout,
                                         !.socket = "REQ1",
                                         !.message_id = DecStr(n + 3)]
                    ELSE IdleReq]
        /\ loop_st = IdleLoop
        /\ usec = n + 3
        /\ last_call = [n |-> MaxCalls, op |-> "request", topic |-> T_q,
                        exc |-> ""]
        /\ arrivals = 0
        /\ closes = [s \in Sockets |-> 0]

CacheNext ==
    \/ \E m \in Deliverable("REQ1") :
         /\ m[2] \in {DecStr(1), DecStr(2), DecStr(3), req[1].message_id}
         /\ Deliver("REQ1", m)
    \/ \E r \in Reqs : PollReady(r)
    \/ \E r \in Reqs : PollTimeout(r)
    \/ \E r \in Reqs : Recv(r)
    \/ Tick

CacheSpec == CacheInit /\ [][CacheNext]_vars

(***************************************************************************)
(* Requests on a REQ socket registered under 'q/#', on topics with and     *)
(* without an underscore, and the responses of a peer that chooses the     *)
(* message ids it sends.                                                   *)
(***************************************************************************)
KeyInit ==
    /\ sockets_tree = register_socket([p \in Patterns |-> None],
                                      "REQ1", <<P_q>>)
    /\ callbacks = [p \in Patterns |-> None]
    /\ response_cache = << >>
    /\ inbox = [s \in Sockets |-> << >>]
    /\ sent = [s \in Sockets |-> << >>]
    /\ req = [r \in Reqs |-> IdleReq]
    /\ loop_st = IdleLoop
    /\ usec = 1
    /\ last_call = [n |-> 0, op |-> "", topic |-> << >>, exc |-> ""]
    /\ arrivals = 0
    /\ closes = [s \in Sockets |-> 0]

KeyNext ==
    \/ \E r \in Reqs, t \in {T_q, T_u}, p \in ReqPayloads, n \in Timeouts :
         RequestCall(r, t, p, n)
    \/ \E m \in Deliverable("REQ1") : Deliver("REQ1", m)
    \/ \E r \in Reqs : PollReady(r)
    \/ \E r \in Reqs : PollTimeout(r)
    \/ \E r \in Reqs : Recv(r)
    \/ Tick

KeySpec == KeyInit /\ [][KeyNext]_vars

(***************************************************************************)
(* Properties.                                                             *)
(***************************************************************************)
Key(r) == cache_key(req[r].topic, req[r].message_id)

\* C1: a request that returns because the response with its topic and its
\* message id was received returns the payload of that response.
C1_ReturnsResponsePayload ==
    \A r \in Reqs :
        (req[r].pc = "returned" /\ req[r].via = "recv")
            => req[r].result = req[r].got

\* C2: a response received by a request that awaits another (topic, id) is
\* cached under its own key with its own payload, and the request that
\* awaits that key returns that payload from the cache and removes the entry.
C2_CachedWithOwnPayload ==
    [][/\ \A r \in Reqs :
            (req[r].pc = "recv" /\ req'[r].pc = "poll")
                => LET m == Head(inbox[req[r].socket])
                       k == cache_key(m[1], m[2])
                   IN  /\ cache_contains(response_cache', k)
                       /\ cache_get(response_cache', k) = decode(m[3])
       /\ \A r \in Reqs :
            (req[r].via = "" /\ req'[r].via = "cache")
                => /\ req'[r].result = decode(Resp(req'[r].message_id))
                   /\ ~cache_contains(response_cache', Key(r)')
      ]_vars

\* No message has ever arrived on the socket of request r.
NothingArrived(r) ==
    /\ inbox[req[r].socket] = << >>
    /\ \A q \in Reqs : req[q].socket = req[r].socket => req[q].seen = 0

\* C3: on a socket on which no message ever arrives, request(timeout=N)
\* raises TubeMessageTimeout when N one-second polls have elapsed: it never
\* returns, it raises nothing else, not before N seconds and not after.
C3_TimeoutAfterNSlices ==
    \A r \in Reqs :
        (req[r].pc # "idle" /\ NothingArrived(r))
            => /\ req[r].pc \in {"poll", "raised"}
               /\ req[r].pc = "raised"
                    => /\ req[r].err = "TubeMessageTimeout"
                       /\ req[r].elapsed = req[r].timeout
                       /\ req[r].ix = req[r].timeout
               /\ req[r].pc = "poll"
                    => /\ req[r].ix < req[r].timeout
                       /\ req[r].elapsed
                            = req[r].ix + (IF req[r].expired THEN 1 ELSE 0)

C3_Witness ==
    \E r \in Reqs :
        /\ req[r].pc = "raised"
        /\ req[r].err = "TubeMessageTimeout"
        /\ req[r].timeout = MaxTimeout
        /\ req[r].elapsed = MaxTimeout
        /\ NothingArrived(r)

IsCall(op) == last_call'.n = last_call.n + 1 /\ last_call'.op = op

\* C4: send, publish and request on a topic that matches no registered
\* pattern raise TubeTopicNotConfigured; nothing is sent, the response cache
\* is unchanged and no request starts waiting.
C4_UnregisteredTopicRaises ==
    [][(/\ IsCall("send") \/ IsCall("publish") \/ IsCall("request")
        /\ get_socket_by_topic(last_call'.topic) = None)
          => /\ last_call'.exc = "TubeTopicNotConfigured"
             /\ sent' = sent
             /\ response_cache' = response_cache
             /\ req' = req
      ]_vars

C4_Witness ==
    /\ last_call.op = "request"
    /\ last_call.exc = "TubeTopicNotConfigured"
    /\ get_socket_by_topic(last_call.topic) = None
    /\ RegisteredSockets # {}

ResolvedType(topic) == ZMQ_SOCKET_TYPE_MAPPING[get_socket_by_topic(topic)]

\* C5: publish on a topic whose socket is not PUB, and request on a topic
\* whose socket is not REQ, raise TubeException before anything is sent:
\* no frames, no wait loop entered, the response cache unchanged.
C5_WrongSocketTypeRaises ==
    [][(/\ get_socket_by_topic(last_call'.topic) # None
        /\ \/ IsCall("publish") /\ ResolvedType(last_call'.topic) # "PUB"
           \/ IsCall("request") /\ ResolvedType(last_call'.topic) # "REQ")
          => /\ last_call'.exc = "TubeException"
             /\ sent' = sent
             /\ response_cache' = response_cache
             /\ req' = req
      ]_vars

C5_Witness ==
    /\ last_call.op = "request"
    /\ last_call.exc = "TubeException"
    /\ get_socket_by_topic(last_call.topic) = "PUB1"
    /\ \A s \in Sockets : sent[s] = << >>

\* C6: a well-formed 3-frame message received on a REP socket is handed to
\* the handler of its topic once, and when the handler returns, one response
\* [topic, same message id, return value] is sent on that socket before the
\* loop receives again.
C6_RepliesWithSameId ==
    [][/\ (loop_st.pc = "events" /\ loop_st'.pc = "handler")
            => LET socket == Head(loop_st.events)
                   m == Head(inbox[socket])
               IN  /\ loop_st'.calls = loop_st.calls + 1
                   /\ loop_st'.cur = [socket |-> socket, topic |-> m[1],
                                      message_id |-> m[2],
                                      payload |-> decode(m[3])]
       /\ (loop_st.pc = "handler" /\ loop_st'.pc \in {"polling", "events"})
            => LET cur == loop_st.cur
               IN  /\ inbox' = inbox
                   /\ \E res \in HandlerResults :
                        /\ format_payload(res).exc = ""
                        /\ sent' = [sent EXCEPT ![cur.socket] =
                                      Append(@, <<cur.topic, cur.message_id,
                                                  format_payload(res).b>>)]
      ]_vars

\* C7: after the dispatch loop has received a message with the wrong number
\* of frames, the loop is still running.
C7_MalformedKeepsLoopRunning ==
    loop_st.bad > 0 => loop_st.pc \in {"polling", "events", "handler"}

\* C8: after a handler has raised, the dispatch loop is still running.
C8_HandlerErrorKeepsLoopRunning ==
    loop_st.raised > 0 => loop_st.pc \in {"polling", "events", "handler"}

\* C9: a request waiting on a ROUTER socket whose topic has a handler is
\* eventually received by the dispatch loop.
C9_RouterRequestReceived ==
    (inbox["ROUTER1"] # << >> /\ get_callback_by_topic(T_r) # None)
        ~> (inbox["ROUTER1"] = << >>)

\* Message m answers a request other than r that has raised
\* TubeMessageTimeout.
Late(r, m) ==
    \E q \in Reqs \ {r} :
        /\ req[q].err = "TubeMessageTimeout"
        /\ m[1] = req[q].topic
        /\ m[2] = req[q].message_id
        /\ Key(q) # Key(r)

\* C10: a response to a request that has timed out, received by the wait
\* loop of a later request, is cached under its own key without an error,
\* and the later request still returns its own response when it arrives.
C10_LateResponseHarmless ==
    [][\A r \in Reqs :
         LET m == Head(inbox[req[r].socket])
         IN  /\ (/\ req[r].pc = "recv"
                 /\ req'[r].seen = req[r].seen + 1
                 /\ Len(m) = 3
                 /\ Late(r, m))
                  => /\ cache_contains(response_cache', cache_key(m[1], m[2]))
                     /\ req'[r].pc = "poll"
                     /\ req'[r].err = ""
             /\ (/\ req[r].pc = "recv"
                 /\ req'[r].pc = "returned"
                 /\ \E q \in Reqs \ {r} :
                      /\ req[q].err = "TubeMessageTimeout"
                      /\ Key(q) # Key(r)
                      /\ cache_contains(response_cache, Key(q)))
                  => req'[r].result = decode(m[3])
      ]_vars

HasKey(c, k) == \E i \in 1..Len(c) : c[i].key = k

\* C11: the response cache never holds more than 128 entries, and the
\* insertion of a new key into a full cache removes its least recently
\* inserted entry, expired or not, and keeps every other unexpired entry.
C11_CacheBounded ==
    /\ [](Len(response_cache) <= CacheMaxSize)
    /\ [][\A r \in Reqs :
            LET m == Head(inbox[req[r].socket])
                k == cache_key(m[1], m[2])
            IN  (/\ req[r].pc = "recv"
                 /\ req'[r].pc = "poll"
                 /\ Len(response_cache) = CacheMaxSize
                 /\ ~HasKey(response_cache, k))
                  => /\ ~HasKey(response_cache', Head(response_cache).key)
                     /\ response_cache'[Len(response_cache')].key = k
                     /\ \A i \in 2..Len(response_cache) :
                          response_cache[i].age < CacheTTL
                            => HasKey(response_cache', response_cache[i].key)
         ]_vars

\* A full cache none of whose entries had aged took the response to id 1
\* and lost its oldest entry, the one of id 3.
C11_Witness ==
    /\ Len(response_cache) = CacheMaxSize
    /\ \A i \in 1..Len(response_cache) : response_cache[i].age = 0
    /\ HasKey(response_cache, cache_key(T_q, DecStr(1)))
    /\ ~HasKey(response_cache, cache_key(T_q, DecStr(3)))

\* C12: the message id of a request in flight differs from the message id
\* of every other request that is in flight or whose response is held in
\* the response cache.
C12_IdsUnique ==
    \A r \in Reqs : \A q \in Reqs \ {r} :
        (/\ InFlight(r)
         /\ req[q].pc # "idle"
         /\ InFlight(q) \/ cache_contains(response_cache, Key(q)))
            => req[r].message_id # req[q].message_id

\* The message that the step appends to what socket s has transmitted.
Transmitted(s) == sent'[s][Len(sent'[s])]

\* C13: every message that publish transmits has 2 frames, and every
\* message that request transmits and every response that the dispatch
\* loop transmits on a REP socket has 3 frames.
C13_FrameCounts ==
    [][\A s \in Sockets :
         Len(sent'[s]) = Len(sent[s]) + 1
           => /\ IsCall("publish") => Len(Transmitted(s)) = 2
              /\ IsCall("request") => Len(Transmitted(s)) = 3
              /\ (loop_st.pc = "handler" /\ ZMQ_SOCKET_TYPE_MAPPING[s] = "REP")
                   => Len(Transmitted(s)) = 3
      ]_vars

C15_ClosedExactlyOnce ==
    /\ \A s \in Sockets : closes[s] <= 1
    /\ TornDown => \A s \in RegisteredSockets : closes[s] = 1

\* C16: a request called with timeout N is in flight for at most N seconds,
\* whatever arrives on its socket.
C16_EndsWithinTimeout ==
    \A r \in Reqs : req[r].elapsed <= req[r].timeout

\* C17: a request does not raise TubeMessageTimeout while the response
\* cache holds an unexpired entry under its (topic, message id).
C17_NoTimeoutWhileCached ==
    [][\A r \in Reqs :
         (req[r].err = "" /\ req'[r].err = "TubeMessageTimeout")
            => ~cache_contains(response_cache, Key(r))
      ]_vars

\* C18: while a handler executes, the dispatch loop receives no message and
\* invokes no handler; handlers are invoked one at a time, and the loop
\* leaves a handler of a REP socket by sending its response.
C18_OneHandlerAtATime ==
    [][/\ loop_st.pc = "handler"
            => /\ loop_st'.calls = loop_st.calls
               /\ \A s \in loop_st.polled : Len(inbox'[s]) >= Len(inbox[s])
       /\ loop_st'.calls # loop_st.calls
            => /\ loop_st.pc # "handler"
               /\ loop_st'.calls = loop_st.calls + 1
       /\ (/\ loop_st.pc = "handler"
           /\ loop_st'.pc \in {"polling", "events"}
           /\ ZMQ_SOCKET_TYPE_MAPPING[loop_st.cur.socket] = "REP")
            => Len(sent'[loop_st.cur.socket])
                 = Len(sent[loop_st.cur.socket]) + 1
      ]_vars

\* A handler executes while another request waits on its socket.
C18_Witness ==
    /\ loop_st.pc = "handler"
    /\ inbox[loop_st.cur.socket] # << >>
    /\ get_callback_by_topic(Head(inbox[loop_st.cur.socket])[1]) # None

\* C19: a response that is cached because its (topic, message id) differs
\* from that of the request receiving it is not cached under the key of
\* that request, nor under the key of any other request with another
\* (topic, message id): no request finds it under its own key.
C19_CacheKeyInjective ==
    [][\A r \in Reqs :
         LET m == Head(inbox[req[r].socket])
         IN  (req[r].pc = "recv" /\ req'[r].pc = "poll")
               => \A q \in Reqs :
                    (/\ req[q].pc # "idle"
                     /\ <<m[1], m[2]>> # <<req[q].topic, req[q].message_id>>)
                      => cache_key(m[1], m[2]) # Key(q)
      ]_vars

\* C20: a well-formed message received on a REP socket whose topic has no
\* handler is dropped: no handler is invoked and the loop goes on with its
\* next event or its next poll.
C20_UnhandledTopicKeepsLoopRunning ==
    [][(/\ loop_st.pc = "events"
        /\ loop_st'.pc # "events" \/ loop_st'.events # loop_st.events
        /\ ZMQ_SOCKET_TYPE_MAPPING[Head(loop_st.events)] = "REP"
        /\ Len(Head(inbox[Head(loop_st.events)])) = 3
        /\ get_callback_by_topic(Head(inbox[Head(loop_st.events)])[1]) = None)
          => /\ loop_st'.pc \in {"polling", "events"}
             /\ loop_st'.calls = loop_st.calls
      ]_vars

=============================================================================
